---- MODULE Spec2Model ----
(***************************************************************************)
(* Model of notebooks/TractableBufferStockQuickDemo.ipynb.                 *)
(*                                                                         *)
(* The notebook keeps one global solver object, MyTBStype, and a plotting  *)
(* callback, makeTBSplot, that interact() runs once when the widgets are   *)
(* displayed and again after every widget change.  The callback writes     *)
(* four attributes of MyTBStype, calls MyTBStype.solve() inside a bare     *)
(* try/except, and then reads the solver's results for the plot.           *)
(*                                                                         *)
(* TractableConsumerType itself is imported from a library; its code is    *)
(* not part of the notebook.  Here solve() is a call that either returns   *)
(* (storing a solution for the parameters the object holds) or raises.     *)
(*                                                                         *)
(* Numbers: model parameters are scaled by 100000 (0.975 is 97500).        *)
(* Consumption values are abstracted to 0 (exactly zero) and 1 (any other  *)
(* value).                                                                 *)
(***************************************************************************)
EXTENDS Integers, Sequences, FiniteSets, TLC

VARIABLES
    MyTBStype,   \* the global solver object (attributes the notebook touches)
    widgets,     \* current value of every widget bound by interact()
    out,         \* what the latest run of makeTBSplot did
    tbs,         \* solve conditions: the parameter set under test
    res          \* solve conditions: outcome of solving tbs

vars == <<MyTBStype, widgets, out, tbs, res>>

\* Number of grid points of m (np.linspace(..., num=100)), scaled down.
GridNum == 4

(***************************************************************************)
(* Parameter sets                                                          *)
(***************************************************************************)
TBS_dictionary ==
    [UnempPrb |-> 625, DiscFac |-> 97500, Rfree |-> 101000,
     PermGroFac |-> 100250, CRRA |-> 250000]

\* Values a widget can be moved to (all inside the widget's range).
DiscFacVals    == {95000}
CRRAVals       == {100000, 250000}
RfreeVals      == {101000, 105000}
PermGroFacVals == {90000, 100250}
UnempPrbVals   == {625, 5000}
mMinVals       == {-1, 0}
mMaxVals       == {2, 3}

\* The five model parameters of a record that has them.
Params(r) ==
    [DiscFac |-> r.DiscFac, CRRA |-> r.CRRA, Rfree |-> r.Rfree,
     PermGroFac |-> r.PermGroFac, UnempPrb |-> r.UnempPrb]

\* No solution yet: the attributes solve() creates do not exist.
NoSolution == [has |-> FALSE, for |-> Params(TBS_dictionary), c0 |-> 0]

\* MyTBStype = TractableConsumerType(**TBS_dictionary)
Construct ==
    [DiscFac |-> TBS_dictionary.DiscFac, CRRA |-> TBS_dictionary.CRRA,
     Rfree |-> TBS_dictionary.Rfree, PermGroFac |-> TBS_dictionary.PermGroFac,
     UnempPrb |-> TBS_dictionary.UnempPrb,
     solution |-> NoSolution]

\* Initial value of every widget handed to interact().
WidgetDefaults ==
    [DiscFac |-> 95000, CRRA |-> 250000, Rfree |-> 101000,
     PermGroFac |-> 100250, UnempPrb |-> 625,
     mMin |-> 0, mMax |-> 3,
     plot_emp |-> TRUE, plot_ret |-> TRUE, plot_mSS |-> TRUE, show_targ |-> TRUE]

(***************************************************************************)
(* makeTBSplot, step by step                                               *)
(***************************************************************************)
Ev(op, who, ps) == [op |-> op, who |-> who, ps |-> ps]

\* Payload of an event that reads no solver result.
NoRules == Params(TBS_dictionary)

\* The attribute writes at the top of makeTBSplot, in code order.
AssignedNames == <<"DiscFac", "CRRA", "PermGroFac", "UnempPrb">>

AssignParams(obj, a) ==
    [obj EXCEPT !.DiscFac = a.DiscFac, !.CRRA = a.CRRA,
                !.PermGroFac = a.PermGroFac, !.UnempPrb = a.UnempPrb]

AssignEvents(obj, a) ==
    [i \in 1..Len(AssignedNames) |->
        Ev("set", AssignedNames[i], NoRules)]

\* MyTBStype.solve(): on success the object holds a solution for the
\* parameters it held when solve was called; a raise leaves it as it was.
Solve(obj, ok, c0) ==
    IF ok THEN [obj EXCEPT !.solution = [has |-> TRUE, for |-> Params(obj), c0 |-> c0]]
          ELSE obj

\* try: solve()  except: print(...)
TryEvents(obj, ok) ==
    <<Ev("solve", IF ok THEN "ok" ELSE "raise", Params(obj))>>
    \o (IF ok THEN <<>> ELSE <<Ev("print", "message", NoRules)>>)

\* m = np.linspace(mMin, mMax, num, endpoint=True); point i is
\* mMin + i*(mMax-mMin)/(num-1), kept here as its numerator over (num-1).
Linspace(lo, hi, num) ==
    [i \in 1..num |-> lo * (num - 1) + (i - 1) * (hi - lo)]

\* The solver's employed rule at grid point n: what it returns at m = 0 is
\* the solution's c0, anything else counts as a non-zero value.  The
\* callback passes the grid to it unguarded, negative points included.
cFunc(sol, n) == IF n = 0 THEN sol.c0 ELSE 1

\* A plausible slip: the masking line left out.
MaskZero_Skipped(m, c) == c

\* c[m==0.] = 0.
MaskZero(m, c) == [i \in 1..Len(c) |-> IF m[i] = 0 THEN 0 ELSE c[i]]

EmployedData(sol, a) ==
    LET m == Linspace(a.mMin, a.mMax, GridNum)
        c == [i \in 1..Len(m) |-> cFunc(sol, m[i])]
        z == MaskZero(m, c)
    IN  [i \in 1..Len(m) |-> [m |-> m[i], c |-> z[i]]]

\* The solver's unemployed rule at grid point n (no masking in the code).
cFunc_U(sol, n) == IF n = 0 THEN 0 ELSE 1

RetiredData(sol, a) ==
    LET m == Linspace(a.mMin, a.mMax, GridNum)
    IN  [i \in 1..Len(m) |-> [m |-> m[i], c |-> cFunc_U(sol, m[i])]]

\* One plotting step: skipped when its checkbox is off; reading an
\* attribute that solve() never created raises out of the callback.
ReadStep(flag, op, sol) ==
    IF ~flag THEN <<>>
    ELSE IF ~sol.has THEN <<Ev("raise", op, sol.for)>>
    ELSE <<Ev(op, "read", sol.for)>>

\* The sustainable-consumption line: drawn from MyTBStype.PermGroFacCmp and
\* MyTBStype.Rfree, attributes this model does not follow; it reads neither
\* a rule nor the target.
LineStep(flag) == IF flag THEN <<Ev("mSS", "read", NoRules)>> ELSE <<>>

\* A plausible slip: the retired rule plotted whatever its checkbox says.
PlotSteps_RetAlways(obj, a) ==
    <<ReadStep(a.plot_emp, "cFunc", obj.solution),
      LineStep(a.plot_mSS),
      ReadStep(TRUE, "cFunc_U", obj.solution),
      ReadStep(a.show_targ, "targ", obj.solution)>>

\* The reads after the try block, in code order.
PlotSteps(obj, a) ==
    <<ReadStep(a.plot_emp, "cFunc", obj.solution),
      LineStep(a.plot_mSS),
      ReadStep(a.plot_ret, "cFunc_U", obj.solution),
      ReadStep(a.show_targ, "targ", obj.solution)>>

RECURSIVE RunSteps(_)
\* Run the steps in order; a raise ends the callback.
RunSteps(steps) ==
    IF steps = <<>> THEN <<Ev("show", "plt", NoRules)>>
    ELSE LET s == Head(steps)
         IN  IF s # <<>> /\ s[1].op = "raise" THEN s
             ELSE s \o RunSteps(Tail(steps))

Has(trace, op) == \E i \in 1..Len(trace) : trace[i].op = op

\* The whole callback: the new solver object and the record of the run.
makeTBSplot(obj, a, ok, c0) ==
    LET o1 == AssignParams(obj, a)
        o2 == Solve(o1, ok, c0)
        tr == AssignEvents(obj, a) \o TryEvents(o1, ok) \o RunSteps(PlotSteps(o2, a))
    IN  [obj   |-> o2,
         out   |-> [invoked |-> TRUE, ok |-> ok,
                    heldAtSolve |-> Params(o1), trace |-> tr,
                    crashed |-> Has(tr, "raise"),
                    emp |-> IF Has(tr, "cFunc") THEN EmployedData(o2.solution, a) ELSE <<>>,
                    ret |-> IF Has(tr, "cFunc_U") THEN RetiredData(o2.solution, a) ELSE <<>>]]

NoRun ==
    [invoked |-> FALSE, ok |-> FALSE,
     heldAtSolve |-> Params(TBS_dictionary), trace |-> <<>>, crashed |-> FALSE,
     emp |-> <<>>, ret |-> <<>>]

(***************************************************************************)
(* The notebook as a state machine                                         *)
(***************************************************************************)
Init ==
    /\ MyTBStype = Construct
    /\ widgets = WidgetDefaults
    /\ out = NoRun
    /\ tbs = Params(TBS_dictionary)
    /\ res = "none"

\* What a call of solve() can do: raise, or return with an employed rule
\* whose value at m = 0 is zero or not.
SolveOutcomes ==
    {[ok |-> FALSE, c0 |-> 0], [ok |-> TRUE, c0 |-> 0], [ok |-> TRUE, c0 |-> 1]}

\* interact() calls makeTBSplot with the widgets' current values.
Invoke(w) ==
    \E oc \in SolveOutcomes :
        \E r \in {makeTBSplot(MyTBStype, w, oc.ok, oc.c0)} :
            /\ MyTBStype' = r.obj
            /\ out' = r.out
            /\ widgets' = w
            /\ UNCHANGED <<tbs, res>>

\* Displaying the interact() cell runs the callback once with the defaults.
Display ==
    /\ ~out.invoked
    /\ Invoke(widgets)

ChangeDiscFac ==
    /\ out.invoked
    /\ \E v \in DiscFacVals : Invoke([widgets EXCEPT !.DiscFac = v])

\* makeTBSplot takes CRRA as an argument; the interact() call as written
\* pins it with fixed(2.5), the commented-out binding is CRRA_widget.
ChangeCRRA ==
    /\ out.invoked
    /\ \E v \in CRRAVals : Invoke([widgets EXCEPT !.CRRA = v])

ChangeRfree ==
    /\ out.invoked
    /\ \E v \in RfreeVals : Invoke([widgets EXCEPT !.Rfree = v])

ChangePermGroFac ==
    /\ out.invoked
    /\ \E v \in PermGroFacVals : Invoke([widgets EXCEPT !.PermGroFac = v])

ChangeUnempPrb ==
    /\ out.invoked
    /\ \E v \in UnempPrbVals : Invoke([widgets EXCEPT !.UnempPrb = v])

ChangemMin ==
    /\ out.invoked
    /\ \E v \in mMinVals : Invoke([widgets EXCEPT !.mMin = v])

ChangemMax ==
    /\ out.invoked
    /\ \E v \in mMaxVals : Invoke([widgets EXCEPT !.mMax = v])

ToggleCheckbox ==
    /\ out.invoked
    /\ \E k \in {"plot_emp", "plot_ret", "plot_mSS", "show_targ"} :
          Invoke([widgets EXCEPT ![k] = ~widgets[k]])

Next ==
    \/ Display
    \/ ChangeDiscFac
    \/ ChangeCRRA
    \/ ChangeRfree
    \/ ChangePermGroFac
    \/ ChangeUnempPrb
    \/ ChangemMin
    \/ ChangemMax
    \/ ToggleCheckbox

Spec == Init /\ [][Next]_vars

(***************************************************************************)
(* The solve conditions on their own                                       *)
(*                                                                         *)
(* The two inequalities that decide whether a parameter set can be solved, *)
(* evaluated over a grid of parameter sets.  x^(1/rho) < y is compared as  *)
(* x^2 < y^(2 rho) (both sides positive, 2 rho a whole number here), in    *)
(* fixed point with five decimals.                                         *)
(***************************************************************************)
\* a*b for five-decimal fixed-point numbers, without leaving 32 bits.
FxMul(a, b) == ((a \div 1000) * b) \div 100 + ((a % 1000) * b) \div 100000

RECURSIVE FxPow(_, _)
FxPow(a, k) == IF k = 0 THEN 100000 ELSE FxMul(FxPow(a, k - 1), a)

TwoRho(P) == P.CRRA \div 50000

\* (R beta)^(1/rho) < R
ReturnImpatient(P) ==
    FxPow(FxMul(P.Rfree, P.DiscFac), 2) < FxPow(P.Rfree, TwoRho(P))

\* A plausible slip: the quotient by Gamma written as a product.
GrowthImpatient_Product(P) ==
    FxPow(FxMul(FxMul(FxMul(P.Rfree, P.DiscFac), 100000 - P.UnempPrb), P.PermGroFac), 2)
        < 100000

\* (R beta (1-p))^(1/rho) / Gamma < 1
GrowthImpatient(P) ==
    FxPow(FxMul(FxMul(P.Rfree, P.DiscFac), 100000 - P.UnempPrb), 2)
        < FxPow(P.PermGroFac, TwoRho(P))

\* solve: the unemployed rule first, then the target.
SolveOutcome(P) ==
    IF ~ReturnImpatient(P) THEN "DivergentValueError"
    ELSE IF ~GrowthImpatient(P) THEN "NoTargetError"
    ELSE "Solved"

ParamGrid ==
    [UnempPrb : {625, 5000}, DiscFac : {97500, 99000}, Rfree : {101000, 105000},
     PermGroFac : {90000, 100250, 115000}, CRRA : {50000, 150000, 250000}]

InitSolver ==
    /\ MyTBStype = Construct
    /\ widgets = WidgetDefaults
    /\ out = NoRun
    /\ tbs \in ParamGrid
    /\ res = "none"

SolveTBS ==
    /\ res = "none"
    /\ res' = SolveOutcome(tbs)
    /\ UNCHANGED <<MyTBStype, widgets, out, tbs>>

NextSolver == SolveTBS

SpecSolver == InitSolver /\ [][NextSolver]_vars

(***************************************************************************)
(* Properties of the callback (checked under Spec)                         *)
(***************************************************************************)
\* Events that read a rule or the target of the solver.
ResultOps == {"cFunc", "cFunc_U", "targ"}

ReadsResult(trace) == \E i \in 1..Len(trace) : trace[i].op \in ResultOps

\* C1: whenever solve fails inside the callback, the callback shows the
\* message and skips the plot: no rule is evaluated, the target is not
\* queried, and the callback does not end in an unhandled exception.
C1_FailureSkipsPlot ==
    (out.invoked /\ ~out.ok) =>
        /\ Has(out.trace, "print")
        /\ ~ReadsResult(out.trace)
        /\ ~out.crashed

\* C2: every rule evaluated and every target shown was produced by a
\* successful solve of the parameter set the solver holds now.
C2_RulesAreCurrent ==
    \A i \in 1..Len(out.trace) :
        out.trace[i].op \in ResultOps => out.trace[i].ps = Params(MyTBStype)

\* C3: the parameter set the solver holds when solve is called equals the
\* user input of that run, for each of the five model parameters.
C3_SolveUsesInput ==
    out.invoked => out.heldAtSolve = Params(widgets)

C10_StepOrder ==
    out.invoked =>
        LET tr == out.trace
        IN  /\ Len(tr) > Len(AssignedNames)
            /\ \A i \in 1..Len(AssignedNames) :
                  tr[i].op = "set" /\ tr[i].who = AssignedNames[i]
            /\ \A i \in 1..Len(tr) :
                  /\ tr[i].op = "solve" <=> i = Len(AssignedNames) + 1
                  /\ tr[i].op = "set" => i <= Len(AssignedNames)
                  /\ tr[i].op \in ResultOps \cup {"mSS", "raise"}
                        => i > Len(AssignedNames) + 1
                  /\ (tr[i].op = "cFunc" \/ (tr[i].op = "raise" /\ tr[i].who = "cFunc"))
                        => widgets.plot_emp
                  /\ (tr[i].op = "cFunc_U" \/ (tr[i].op = "raise" /\ tr[i].who = "cFunc_U"))
                        => widgets.plot_ret
                  /\ (tr[i].op = "targ" \/ (tr[i].op = "raise" /\ tr[i].who = "targ"))
                        => widgets.show_targ
                  /\ tr[i].op = "mSS" => widgets.plot_mSS
            /\ (~widgets.plot_emp /\ ~widgets.plot_ret /\ ~widgets.plot_mSS
                    /\ ~widgets.show_targ)
                  => \A i \in 1..Len(tr) : tr[i].op \in {"set", "solve", "print", "show"}

\* A run that read the employed rule and the target with the retired
\* rule's checkbox off.
C10_Witness ==
    /\ out.invoked
    /\ Has(out.trace, "cFunc")
    /\ Has(out.trace, "targ")
    /\ ~widgets.plot_ret
    /\ ~Has(out.trace, "cFunc_U")

(***************************************************************************)
(* Properties of the solve conditions (checked under SpecSolver)           *)
(***************************************************************************)
\* p=0.00625, beta=0.975, R=1.01, rho=1.5 and the given growth factor.
Scenario(G) ==
    [UnempPrb |-> 625, DiscFac |-> 97500, Rfree |-> 101000,
     PermGroFac |-> G, CRRA |-> 150000]

\* C5 as stated: with Gamma raised to 1.15 the growth-impatience condition
\* fails and solve fails with NoTargetError, whereas with Gamma = 1.0025
\* the condition holds and solve succeeds.
C5_Original ==
    res # "none" =>
        /\ tbs = Scenario(115000) => (~GrowthImpatient(tbs) /\ res = "NoTargetError")
        /\ tbs = Scenario(100250) => (GrowthImpatient(tbs) /\ res = "Solved")

\* C5 amended: the condition holds at Gamma = 1.0025 and still holds at
\* Gamma = 1.15, so solve does not fail with NoTargetError at either; with
\* Gamma = 1.0025 solve succeeds.
C5_Amended ==
    res # "none" =>
        /\ tbs = Scenario(115000) => (GrowthImpatient(tbs) /\ res # "NoTargetError")
        /\ tbs = Scenario(100250) => (GrowthImpatient(tbs) /\ res = "Solved")

\* The scenario with Gamma = 1.15 has been solved.
C5_Witness == res # "none" /\ tbs = Scenario(115000)

====
